---- MODULE Spec2Model ----
(***************************************************************************)
(* goscrub (Word_DataMasking): a batch tool that strips metadata from      *)
(* documents.  main() discovers candidate files, fans them out to a pool   *)
(* of worker goroutines over a buffered channel, each worker rewrites its  *)
(* file into <path>.tmp and commits it with replaceOriginal (backup, two   *)
(* renames, fallback copy).  Strings are sequences of one-character        *)
(* strings so that Ext, ToLower, HasPrefix and path derivation are         *)
(* computed as the code computes them.                                     *)
(***************************************************************************)
EXTENDS Integers, Sequences, FiniteSets, TLC

\* ------------------------------------------------------------------ bounds
\* files in the walked tree
MaxFiles == 2
\* largest --workers value tried
MaxWorkers == 2
\* entries of an archive handed to rewriteZip in SpecRewrite
MaxEntries == 2
\* invocations of the program on the same tree in SpecRerun
MaxRuns == 3
\* seconds the clock may advance in SpecRerun
MaxClock == 1

\* ----------------------------------------------------------------- strings
RECURSIVE Itoa(_)
\* fmt.Sprintf("%d", n) for n >= 0
Itoa(n) ==
  LET Digit(d) == <<"0", "1", "2", "3", "4", "5", "6", "7", "8", "9">>[d + 1]
  IN IF n < 10 THEN <<Digit(n)>> ELSE Itoa(n \div 10) \o <<Digit(n % 10)>>

\* the letters A-Z and a-z in byte order
UpperCase ==
  <<"A", "B", "C", "D", "E", "F", "G", "H", "I", "J", "K", "L", "M",
    "N", "O", "P", "Q", "R", "S", "T", "U", "V", "W", "X", "Y", "Z">>
LowerCase ==
  <<"a", "b", "c", "d", "e", "f", "g", "h", "i", "j", "k", "l", "m",
    "n", "o", "p", "q", "r", "s", "t", "u", "v", "w", "x", "y", "z">>

\* the lower-case letter of each upper-case one
LowerOf ==
  [c \in {UpperCase[k] : k \in 1..26} |->
     LowerCase[CHOOSE k \in 1..26 : UpperCase[k] = c]]
\* strings.ToLower (ASCII): each upper-case letter becomes its lower-case one
ToLower(s) ==
  [i \in 1..Len(s) |-> IF s[i] \in DOMAIN LowerOf THEN LowerOf[s[i]] ELSE s[i]]

\* strings.HasPrefix
HasPrefix(s, pre) ==
  /\ Len(s) >= Len(pre)
  /\ SubSeq(s, 1, Len(pre)) = pre

\* an extension compared with its dot still on
trimDotKept(ext) == ext

\* strings.TrimPrefix(ext, ".")
trimDot(ext) ==
  IF HasPrefix(ext, <<".">>) THEN SubSeq(ext, 2, Len(ext)) ELSE ext

\* filepath.Ext: the suffix starting at the last dot of the last path element
Ext(p) ==
  LET dots == {i \in 1..Len(p) : p[i] = "." /\ \A j \in i..Len(p) : p[j] # "/"}
  IN IF dots = {} THEN <<>>
     ELSE LET i == CHOOSE k \in dots : \A m \in dots : m <= k
          IN SubSeq(p, i, Len(p))

DOCX == <<".", "d", "o", "c", "x">>
XLSX == <<".", "x", "l", "s", "x">>
PPTX == <<".", "p", "p", "t", "x">>
ODT == <<".", "o", "d", "t">>
ODS == <<".", "o", "d", "s">>
ODP == <<".", "o", "d", "p">>
JPG == <<".", "j", "p", "g">>
JPEG == <<".", "j", "p", "e", "g">>
PNG == <<".", "p", "n", "g">>
PDF == <<".", "p", "d", "f">>

openXMLSet == {DOCX, XLSX, PPTX}
openDocSet == {ODT, ODS, ODP}
imageSet == {JPG, JPEG, PNG}

isSupportedExt(ext) ==
  IF ext \in openXMLSet \/ ext \in openDocSet \/ ext \in imageSet THEN TRUE
  ELSE IF ext = PDF THEN TRUE
  ELSE FALSE

\* one staging path for every file
TmpPathShared(p) == <<"t", "m", "p">>

\* path + ".tmp"
TmpPath(p) == p \o <<".", "t", "m", "p">>
\* orig + ".bak"
BakPath(p) == p \o <<".", "b", "a", "k">>
\* fmt.Sprintf("%s.%d.bak", orig, time.Now().Unix())
StampedBakPath(p, t) == p \o <<".">> \o Itoa(t) \o <<".", "b", "a", "k">>

RECURSIVE Split(_, _)
\* strings.Split(csv, ","): the pieces between separators, empty ones included
Split(s, sep) ==
  LET at == {i \in 1..Len(s) : s[i] = sep}
  IN IF at = {} THEN <<s>>
     ELSE LET i == CHOOSE k \in at : \A m \in at : k <= m
          IN <<SubSeq(s, 1, i - 1)>> \o Split(SubSeq(s, i + 1, Len(s)), sep)

RECURSIVE TrimSpace(_)
\* strings.TrimSpace
TrimSpace(s) ==
  IF s # <<>> /\ s[1] = " " THEN TrimSpace(Tail(s))
  ELSE IF s # <<>> /\ s[Len(s)] = " " THEN TrimSpace(SubSeq(s, 1, Len(s) - 1))
  ELSE s

\* toSet(csv): lower-cased, dot-stripped, non-empty members
toSet(csv) ==
  IF TrimSpace(csv) = <<>> THEN {}
  ELSE LET parts == Split(csv, ",")
           norm(v) == trimDot(TrimSpace(ToLower(v)))
       IN {norm(parts[i]) : i \in 1..Len(parts)} \ {<<>>}

\* ---------------------------------------------------------------- contents
\* one zip entry: zip.File's Name, Method, Mode(), Modified and its bytes
Entry(n, me, mo, t, c) ==
  [name |-> n, method |-> me, mode |-> mo, modified |-> t, content |-> c]

NameCore == <<"d", "o", "c", "P", "r", "o", "p", "s", "/", "a">>
NameBody == <<"w", "/", "d">>
NameMeta == <<"M", "e", "t", "a", ".", "x", "m", "l">>
NameManifest == <<"m", "/", "m">>
NameUpperProps == <<"D", "O", "C", "P", "R", "O", "P", "S", "/", "A">>
NamePropsX == <<"d", "o", "c", "P", "r", "o", "p", "s", "X", "/", "a">>
NamePropsBare == <<"d", "o", "c", "P", "r", "o", "p", "s">>
NameNestedProps ==
  <<"x", "/", "d", "o", "c", "P", "r", "o", "p", "s", "/", "a">>
NameLowerMeta == <<"m", "e", "t", "a", ".", "x", "m", "l">>
NameSubMeta == <<"s", "u", "b", "/", "m", "e", "t", "a", ".", "x", "m", "l">>
NameOdfManifest ==
  <<"M", "E", "T", "A", "-", "I", "N", "F", "/", "m", "a", "n", "i", "f",
  "e", "s", "t", ".", "x", "m", "l">>
\* the entry names archives of the model are built from
EntryNames ==
  {NameCore, NameBody, NameMeta, NameManifest, NameUpperProps, NamePropsX,
   NamePropsBare, NameNestedProps, NameLowerMeta, NameSubMeta, NameOdfManifest}

\* what a path holds: a zip archive, a raster image, a PDF, bytes that are
\* none of these, a file just created, or a file whose write was cut short
Zip(es) == [kind |-> "zip", entries |-> es, meta |-> FALSE]
Image(m) == [kind |-> "img", entries |-> <<>>, meta |-> m]
PdfDoc == [kind |-> "pdf", entries |-> <<>>, meta |-> TRUE]
Garbage == [kind |-> "garbage", entries |-> <<>>, meta |-> FALSE]
Empty == [kind |-> "empty", entries |-> <<>>, meta |-> FALSE]
Partial == [kind |-> "partial", entries |-> <<>>, meta |-> FALSE]

DocxGood ==
  Zip(<<Entry(NameCore, 8, 420, 1, "core"), Entry(NameBody, 8, 420, 1, "body")>>)
OdtGood ==
  Zip(<<Entry(NameManifest, 0, 420, 2, "manifest"), Entry(NameMeta, 8, 420, 2, "meta")>>)

\* ------------------------------------------------------------------- tree
FileA == <<"a", ".", "d", "o", "c", "x">>
FileB == <<"b", ".", "O", "D", "T">>
FileC == <<"c", ".", "j", "p", "g">>
FileD == <<"d", ".", "p", "d", "f">>
FileE == <<"e", ".", "t", "x", "t">>
\* the directory entries filepath.WalkDir may meet, in its lexical order
Catalog == <<FileA, FileB, FileC, FileD, FileE>>

\* the contents a file of the tree may start with
ContentOptions(p) ==
  LET ext == ToLower(Ext(p))
  IN IF ext \in openXMLSet THEN {DocxGood, Garbage}
     ELSE IF ext \in openDocSet THEN {OdtGood, Garbage}
     ELSE IF ext \in imageSet THEN {Image(TRUE), Garbage}
     ELSE IF ext = PDF THEN {PdfDoc}
     ELSE {Garbage}

\* ------------------------------------------------------------------ state
VARIABLES
  backup, dryRun, workers, withPDF, includeExt, excludeExt,
  fs, denied, now,
  mainpc, files, listed, sent, jobs, closed, okCount, failCount, reported,
  wk,
  invoked, calls, outcome, fs0, run, prevListed, overwrote

flagVars == <<backup, dryRun, workers, withPDF, includeExt, excludeExt>>
mainVars == <<mainpc, files, listed, sent, jobs, closed, reported>>
countVars == <<okCount, failCount>>
ghostVars == <<invoked, calls, outcome, fs0, run, prevListed, overwrote>>
vars == <<flagVars, fs, denied, now, mainVars, countVars, wk, ghostVars>>

Range(q) == {q[i] : i \in 1..Len(q)}

RECURSIVE SeqOfIdx(_)
\* the catalog entries with the given indices, in catalog (lexical) order
SeqOfIdx(S) ==
  IF S = {} THEN <<>>
  ELSE LET m == CHOOSE k \in S : \A j \in S : k <= j
       IN <<Catalog[m]>> \o SeqOfIdx(S \ {m})

\* the directory listings with at most n files
Trees(n) ==
  {SeqOfIdx(S) : S \in {T \in SUBSET (1..Len(Catalog)) : Cardinality(T) <= n}}

\* the initial file systems over a listing
FileSystems(t) ==
  {f \in [Range(t) -> UNION {ContentOptions(p) : p \in Range(t)}] :
     \A p \in Range(t) : f[p] \in ContentOptions(p)}

\* the entry names of what a path holds
NamesIn(c) == {c.entries[i].name : i \in 1..Len(c.entries)}

\* a keep closure is held as its values on the names of the archive it is
\* called on; before scrubFile is called there is none
KeepAll == [n \in {} |-> TRUE]

\* a goroutine of the pool before `go func()` starts it; the fields are the
\* locals of the worker closure, scrubFile, rewriteZip, scrubImage,
\* replaceOriginal and copyFile, and (pre, staged, renames, copies, bakfail,
\* open) record what the commit has done so far
IdleWorker ==
  [pc |-> "idle", p |-> <<>>, keep |-> KeepAll, zr |-> <<>>, idx |-> 0,
   zw |-> <<>>, img |-> Empty, bak |-> <<>>, i |-> 0, src |-> <<>>,
   dst |-> <<>>, call |-> "", err |-> "", reg |-> 0,
   pre |-> Empty, staged |-> Empty, renames |-> 0, copies |-> 0,
   bakfail |-> FALSE, open |-> {}]

Workers == 1..MaxWorkers

\* values of --workers a caller may pass (the flag is a plain int)
WorkerFlagValues == (0 - 1)..MaxWorkers

\* the process state when main() is entered
InitProc ==
  /\ mainpc = "start"
  /\ files = <<>>
  /\ listed = <<>>
  /\ sent = 0
  /\ jobs = <<>>
  /\ closed = FALSE
  /\ okCount = 0
  /\ failCount = 0
  /\ reported = <<>>
  /\ wk = [w \in Workers |-> IdleWorker]
  /\ invoked = {}
  /\ calls = 0
  /\ outcome = {}
  /\ prevListed = <<>>
  /\ overwrote = {}

\* one invocation on a directory of at most MaxFiles files
Init ==
  /\ backup \in BOOLEAN
  /\ dryRun \in BOOLEAN
  /\ workers \in WorkerFlagValues
  /\ withPDF = FALSE
  /\ includeExt = <<>>
  /\ excludeExt = <<>>
  /\ \E t \in Trees(MaxFiles) : fs \in FileSystems(t)
  /\ fs0 = fs
  /\ denied = {}
  /\ now = 0
  /\ run = 1
  /\ InitProc

\* ------------------------------------------------------------------- main
\* the WalkDir callback on a regular file p: files after the visit
WalkFn(acc, p, inc, exc) ==
  LET ext == ToLower(Ext(p))
  IN IF Cardinality(inc) > 0 /\ trimDot(ext) \notin inc THEN acc
     ELSE IF trimDot(ext) \in exc THEN acc
     ELSE IF isSupportedExt(ext) THEN Append(acc, p)
     ELSE acc

\* the characters paths are made of, in byte order
Alphabet ==
  <<".", "/", "0", "1", "2", "3", "4", "5", "6", "7", "8", "9">>
    \o UpperCase \o LowerCase
\* the rank of a character in that order
Ord(c) == CHOOSE i \in 1..Len(Alphabet) : Alphabet[i] = c

\* a < b as strings
LessStr(a, b) ==
  \E k \in 1..(Len(b)) :
    /\ k <= Len(a) + 1
    /\ \A j \in 1..(k - 1) : a[j] = b[j]
    /\ \/ k = Len(a) + 1
       \/ k <= Len(a) /\ Ord(a[k]) < Ord(b[k])

RECURSIVE SortedPaths(_)
\* the paths of S in lexical order, the order WalkDir reads a directory in
SortedPaths(S) ==
  IF S = {} THEN <<>>
  ELSE LET m == CHOOSE a \in S : \A b \in S \ {a} : LessStr(a, b)
       IN <<m>> \o SortedPaths(S \ {m})

\* filepath.WalkDir over the listing t, calling WalkFn in lexical order:
\* each call appends its file to the files collected so far or leaves them
WalkDir(t, acc, inc, exc) ==
  LET appended(p) == WalkFn(<<>>, p, inc, exc) = <<p>>
  IN acc \o SelectSeq(t, appended)

\* the input path, a directory
Root == <<".">>
\* a directory inside it
Sub == <<"s">>
\* a file in that directory
FileS == <<"s", "/", "f", ".", "p", "n", "g">>

\* filepath.Dir: the path up to its last separator, "." when it has none
Dir(p) ==
  LET seps == {i \in 1..Len(p) : p[i] = "/"}
  IN IF seps = {} THEN Root
     ELSE SubSeq(p, 1, (CHOOSE k \in seps : \A m \in seps : m <= k) - 1)

\* os.Stat(inputPath) fails, or WalkDir hands the callback the error of
\* reading a directory: `if err != nil { return err }` ends the walk
WalkFails == Root \in denied \/ \E p \in DOMAIN fs : Dir(p) \in denied

\* the files of the listing t the walk reaches before a directory fails
Visited(t) ==
  LET bad == {i \in 1..Len(t) : Root \in denied \/ Dir(t[i]) \in denied}
  IN IF bad = {} THEN t
     ELSE SubSeq(t, 1, (CHOOSE i \in bad : \A j \in bad : i <= j) - 1)

\* main up to the "found N files" line: collect; log.Fatalf when the path
\* cannot be accessed or the walk returns an error; return when none match
Discover ==
  /\ mainpc = "start"
  /\ LET found == WalkDir(Visited(SortedPaths(DOMAIN fs)), <<>>,
                          toSet(includeExt), toSet(excludeExt))
     IN /\ files' = found
        /\ mainpc' = IF WalkFails THEN "fatal"
                     ELSE IF Len(found) = 0 THEN "done" ELSE "found"
  /\ UNCHANGED <<flagVars, fs, denied, now, listed, sent, jobs, closed, reported,
                 countVars, wk, ghostVars>>

\* if dryRun: print each candidate and return
DryRunList ==
  /\ mainpc = "found"
  /\ dryRun
  /\ listed' = files
  /\ mainpc' = "done"
  /\ UNCHANGED <<flagVars, fs, denied, now, files, sent, jobs, closed, reported,
                 countVars, wk, ghostVars>>

\* a pool that is started without looking at dryRun
StartWorkersAnyMode ==
  /\ mainpc = "found"
  /\ wk' = [w \in Workers |->
              IF w <= workers THEN [wk[w] EXCEPT !.pc = "recv"] ELSE wk[w]]
  /\ mainpc' = "enqueue"
  /\ UNCHANGED <<flagVars, fs, denied, now, files, listed, sent, jobs, closed,
                 reported, countVars, ghostVars>>

\* make(chan string, len(files)) and the loop `for i := 0; i < workers; i++`
\* that starts one goroutine per iteration
StartWorkers ==
  /\ mainpc = "found"
  /\ ~dryRun
  /\ wk' = [w \in Workers |->
              IF w <= workers THEN [wk[w] EXCEPT !.pc = "recv"] ELSE wk[w]]
  /\ mainpc' = "enqueue"
  /\ UNCHANGED <<flagVars, fs, denied, now, files, listed, sent, jobs, closed,
                 reported, countVars, ghostVars>>

\* jobs <- f for the next candidate; the channel holds len(files) values
Enqueue ==
  /\ mainpc = "enqueue"
  /\ sent < Len(files)
  /\ Len(jobs) < Len(files)
  /\ jobs' = Append(jobs, files[sent + 1])
  /\ sent' = sent + 1
  /\ UNCHANGED <<flagVars, fs, denied, now, mainpc, files, listed, closed,
                 reported, countVars, wk, ghostVars>>

\* a main that waits for the workers without closing the queue
CloseJobsLeftOpen ==
  /\ mainpc = "enqueue"
  /\ sent = Len(files)
  /\ mainpc' = "wait"
  /\ UNCHANGED <<flagVars, fs, denied, now, files, listed, sent, jobs, closed,
                 reported, countVars, wk, ghostVars>>

\* close(jobs) after the last send
CloseJobs ==
  /\ mainpc = "enqueue"
  /\ sent = Len(files)
  /\ closed' = TRUE
  /\ mainpc' = "wait"
  /\ UNCHANGED <<flagVars, fs, denied, now, files, listed, sent, jobs, reported,
                 countVars, wk, ghostVars>>

\* wg.Wait() returns once every started goroutine ran wg.Done; then the
\* final Printf of okCount and failCount
WaitAndReport ==
  /\ mainpc = "wait"
  /\ \A w \in Workers : wk[w].pc \in {"idle", "exit"}
  /\ reported' = <<okCount, failCount>>
  /\ mainpc' = "done"
  /\ UNCHANGED <<flagVars, fs, denied, now, files, listed, sent, jobs, closed,
                 countVars, wk, ghostVars>>

\* ------------------------------------------------------------ file system
Exists(p) == p \in DOMAIN fs
\* the file system with c at path p
Write(f, p, c) == [q \in DOMAIN f \cup {p} |-> IF q = p THEN c ELSE f[q]]
\* the file system without path p (os.Remove, or the source of a rename)
Remove(f, p) == [q \in DOMAIN f \ {p} |-> f[q]]

\* ---------------------------------------------------------------- workers
\* a keep closure that compares the name as it is spelled
keepOpenXMLCaseSensitive(name) ==
  IF HasPrefix(name, <<"d", "o", "c", "P", "r", "o", "p", "s", "/">>)
  THEN FALSE ELSE TRUE

\* scrubOpenXML's keep closure
keepOpenXML(name) ==
  LET lower == ToLower(name)
  IN IF HasPrefix(lower, <<"d", "o", "c", "p", "r", "o", "p", "s", "/">>)
     THEN FALSE ELSE TRUE

\* scrubOpenDocument's keep closure
keepOpenDocument(name) ==
  LET lower == ToLower(name)
  IN IF lower = <<"m", "e", "t", "a", ".", "x", "m", "l">> THEN FALSE ELSE TRUE

\* scrubFile returns e ("" is nil) to the worker loop, which then picks the
\* counter to add to; deferred Close calls run on the way out and the locals
\* of the returning functions are gone (what the commit did stays on record
\* until the loop moves on)
Ret(r, e) ==
  [IdleWorker EXCEPT !.pc = "addread", !.p = r.p, !.err = e, !.bak = r.bak,
                     !.pre = r.pre, !.staged = r.staged, !.keep = r.keep,
                     !.renames = r.renames, !.copies = r.copies,
                     !.bakfail = r.bakfail]

\* the outcome of scrubFile(p) as the worker loop sees it
Out(p, e) == <<p, IF e = "" THEN "ok" ELSE "fail">>

\* a backup taken of the staged file instead of the original
BackupSourceStaged(orig, tmp) == tmp

\* which path copyFile reads for the backup
BackupSource(orig, tmp) == orig

\* where replaceOriginal continues after the backup block
AfterBackup(r) == [r EXCEPT !.pc = "rename", !.i = 0]

\* replaceOriginal(orig, tmp) is entered: `if backup` picks the first step
EnterReplace(r) ==
  LET q == [r EXCEPT !.pre = IF Exists(r.p) THEN fs[r.p] ELSE Empty,
                     !.renames = 0, !.copies = 0]
  IN IF backup THEN [q EXCEPT !.pc = "stat"] ELSE AfterBackup(q)

\* a PDF cleaner that returns nil without doing anything
scrubPDFNil == ""

\* scrubPDF -> scrubPDFWithPDFCPU: the placeholder returns its own error
scrubPDFWithPDFCPU == "pdf-stub"

\* the goroutines blocked in `range jobs` have the same (empty) locals, so
\* the one with the least index stands for whichever the runtime wakes
Wakes(w) ==
  /\ wk[w].pc = "recv"
  /\ \A v \in Workers : wk[v].pc = "recv" => w <= v

\* `for f := range jobs` receives a path and calls scrubFile(f), whose switch
\* on the lower-cased extension picks the scrubber
Receive(w) ==
  /\ Wakes(w)
  /\ jobs # <<>>
  /\ LET f == Head(jobs)
         ext == ToLower(Ext(f))
         r == [IdleWorker EXCEPT !.p = f]
         e == IF ~withPDF THEN "pdf-disabled" ELSE scrubPDFWithPDFCPU
     IN /\ jobs' = Tail(jobs)
        /\ invoked' = invoked \cup {f}
        /\ calls' = calls + 1
        /\ IF ext \in openXMLSet
           THEN /\ wk' = [wk EXCEPT ![w] = [r EXCEPT !.pc = "readfile",
                            !.keep = [n \in NamesIn(fs[f]) |-> keepOpenXML(n)]]]
                /\ outcome' = outcome
           ELSE IF ext \in openDocSet
           THEN /\ wk' = [wk EXCEPT ![w] = [r EXCEPT !.pc = "readfile",
                            !.keep = [n \in NamesIn(fs[f]) |-> keepOpenDocument(n)]]]
                /\ outcome' = outcome
           ELSE IF ext \in imageSet
           THEN /\ wk' = [wk EXCEPT ![w] = [r EXCEPT !.pc = "imgopen"]]
                /\ outcome' = outcome
           ELSE IF ext = PDF
           THEN /\ wk' = [wk EXCEPT ![w] = Ret(r, e)]
                /\ outcome' = outcome \cup {Out(f, e)}
           ELSE /\ wk' = [wk EXCEPT ![w] = Ret(r, "unsupported")]
                /\ outcome' = outcome \cup {Out(f, "unsupported")}
  /\ UNCHANGED <<flagVars, fs, denied, now, mainpc, files, listed, sent, closed,
                 reported, countVars, fs0, run, prevListed, overwrote>>

\* the range loop ends on the closed, drained channel; defer wg.Done()
Exit(w) ==
  /\ Wakes(w)
  /\ jobs = <<>>
  /\ closed
  /\ wk' = [wk EXCEPT ![w].pc = "exit"]
  /\ UNCHANGED <<flagVars, fs, denied, now, mainVars, countVars, ghostVars>>

\* what a worker step that touches only its locals and the files leaves alone
WorkerFrame ==
  UNCHANGED <<flagVars, denied, now, mainVars, countVars, invoked, calls,
              fs0, run, prevListed>>

\* rewriteZip: os.ReadFile(path), then zip.NewReader over the bytes
ReadFile(w) ==
  /\ wk[w].pc = "readfile"
  /\ \E ok \in BOOLEAN :
       LET r == wk[w]
           e == IF ~(ok /\ Exists(r.p)) THEN "read"
                ELSE IF fs[r.p].kind # "zip" THEN "zip" ELSE ""
       IN IF e # ""
          THEN /\ wk' = [wk EXCEPT ![w] = Ret(r, e)]
               /\ outcome' = outcome \cup {Out(r.p, e)}
          ELSE /\ wk' = [wk EXCEPT ![w] = [r EXCEPT !.pc = "create",
                                                   !.zr = fs[r.p].entries]]
               /\ outcome' = outcome
  /\ UNCHANGED <<fs, overwrote>>
  /\ WorkerFrame

\* rewriteZip: tmp := path + ".tmp"; os.Create(tmp); zip.NewWriter(f)
CreateTmp(w) ==
  /\ wk[w].pc = "create"
  /\ \E ok \in BOOLEAN :
       LET r == wk[w]
       IN IF ~ok
          THEN /\ wk' = [wk EXCEPT ![w] = Ret(r, "create")]
               /\ outcome' = outcome \cup {Out(r.p, "create")}
               /\ fs' = fs
          ELSE /\ wk' = [wk EXCEPT ![w] = [r EXCEPT !.pc = "entry", !.idx = 1,
                                  !.zw = <<>>, !.open = {TmpPath(r.p)}]]
               /\ outcome' = outcome
               /\ fs' = Write(fs, TmpPath(r.p), Empty)
  /\ UNCHANGED overwrote
  /\ WorkerFrame

\* a header whose Modified is later than the source entry's
NewEntryStamped(zf) ==
  [name |-> zf.name, method |-> zf.method, mode |-> zf.mode,
   modified |-> zf.modified + 1, content |-> zf.content]

\* a header built without Method, which the zip writer reads as Store
NewEntryNoMethod(zf) ==
  [name |-> zf.name, method |-> 0, mode |-> zf.mode,
   modified |-> zf.modified, content |-> zf.content]

\* the entry rewriteZip writes for a kept source entry zf: a fresh FileHeader
\* with Name and Method, SetMode(zf.Mode()), Modified, and io.Copy of the body
NewEntry(zf) ==
  [name |-> zf.name, method |-> zf.method, mode |-> zf.mode,
   modified |-> zf.modified, content |-> zf.content]

\* an error path that returns without removing the staged file
DiscardTmpKept(f, p) == f

\* the error paths of rewriteZip: zw.Close(); f.Close(); os.Remove(tmp)
DiscardTmp(f, p) == Remove(f, p)

\* one iteration of `for _, zf := range zr.File`: a dropped entry continues;
\* a kept one is opened, given a header and copied, and an error of zf.Open,
\* zw.CreateHeader or io.Copy ("entry") closes the writer and the file,
\* removes tmp and returns
RewriteEntry(w) ==
  /\ wk[w].pc = "entry"
  /\ wk[w].idx <= Len(wk[w].zr)
  /\ LET r == wk[w]
         zf == r.zr[r.idx]
     IN IF ~r.keep[zf.name]
        THEN /\ wk' = [wk EXCEPT ![w].idx = r.idx + 1]
             /\ UNCHANGED <<fs, outcome>>
        ELSE \E res \in {"", "entry"} :
               IF res = ""
               THEN /\ wk' = [wk EXCEPT ![w] = [r EXCEPT !.idx = r.idx + 1,
                                      !.zw = Append(r.zw, NewEntry(zf))]]
                    /\ fs' = Write(fs, TmpPath(r.p), Partial)
                    /\ outcome' = outcome
               ELSE /\ wk' = [wk EXCEPT ![w] = Ret(r, res)]
                    /\ fs' = DiscardTmp(fs, TmpPath(r.p))
                    /\ outcome' = outcome \cup {Out(r.p, res)}
  /\ UNCHANGED overwrote
  /\ WorkerFrame

\* after the loop: zw.Close() writes the central directory, f.Close(); an
\* error of either removes tmp and returns; else replaceOriginal(path, tmp)
CloseZip(w) ==
  /\ wk[w].pc = "entry"
  /\ wk[w].idx > Len(wk[w].zr)
  /\ \E res \in {"", "close"} :
       LET r == wk[w]
       IN IF res = ""
          THEN /\ fs' = Write(fs, TmpPath(r.p), Zip(r.zw))
               /\ wk' = [wk EXCEPT ![w] =
                           [EnterReplace(r) EXCEPT !.open = {},
                                                   !.staged = Zip(r.zw)]]
               /\ outcome' = outcome
          ELSE /\ fs' = DiscardTmp(fs, TmpPath(r.p))
               /\ wk' = [wk EXCEPT ![w] = Ret(r, res)]
               /\ outcome' = outcome \cup {Out(r.p, res)}
  /\ UNCHANGED overwrote
  /\ WorkerFrame

\* copyFile returned e ("" is nil) to its call site in replaceOriginal: the
\* backup block returns the wrapped error or goes on to the rename loop; the
\* fallback returns the wrapped error or goes on to os.Remove(tmp)
\* a commit that goes on to the rename although the backup failed
BackupFailedIgnored(r) == AfterBackup(r)

BackupFailed(r) == Ret(r, "backup")

CopyReturn(r, e) ==
  LET q == [r EXCEPT !.open = r.open \ {r.dst},
                     !.bakfail = (r.call = "backup" /\ e # "")]
  IN IF r.call = "backup"
     THEN IF e # "" THEN BackupFailed(q) ELSE AfterBackup(q)
     ELSE IF e # "" THEN Ret(q, "replace") ELSE [q EXCEPT !.pc = "remove"]

\* worker w's locals become r2; a return to the worker loop is an outcome
Step(w, r2) ==
  /\ wk' = [wk EXCEPT ![w] = r2]
  /\ outcome' = IF r2.pc = "addread" THEN outcome \cup {Out(r2.p, r2.err)}
                ELSE outcome

\* replaceOriginal with backup: bak := orig + ".bak", or the time-stamped
\* name when os.Stat(bak) finds a file; then copyFile(orig, bak) is called
StatBak(w) ==
  /\ wk[w].pc = "stat"
  /\ LET r == wk[w]
         b == IF Exists(BakPath(r.p)) THEN StampedBakPath(r.p, now)
              ELSE BakPath(r.p)
     IN Step(w, [r EXCEPT !.pc = "copyopen", !.bak = b, !.call = "backup",
                          !.src = BackupSource(r.p, TmpPath(r.p)), !.dst = b])
  /\ UNCHANGED <<fs, overwrote>>
  /\ WorkerFrame

\* copyFile: os.Open(src)
CopyOpen(w) ==
  /\ wk[w].pc = "copyopen"
  /\ \E ok \in BOOLEAN :
       LET r == wk[w]
       IN IF ok /\ Exists(r.src)
          THEN Step(w, [r EXCEPT !.pc = "copycreate"])
          ELSE Step(w, CopyReturn(r, "open"))
  /\ UNCHANGED <<fs, overwrote>>
  /\ WorkerFrame

\* copyFile: os.Create(dst), which truncates a file already at dst
CopyCreate(w) ==
  /\ wk[w].pc = "copycreate"
  /\ \E ok \in BOOLEAN :
       LET r == wk[w]
       IN IF ok
          THEN /\ Step(w, [r EXCEPT !.pc = "copydata",
                             !.open = r.open \cup {r.dst},
                             !.copies = IF r.call = "fallback"
                                        THEN r.copies + 1 ELSE r.copies])
               /\ fs' = Write(fs, r.dst, Empty)
               /\ overwrote' = IF r.call = "backup" /\ Exists(r.dst)
                               THEN overwrote \cup {r.dst} ELSE overwrote
          ELSE /\ Step(w, CopyReturn(r, "create"))
               /\ UNCHANGED <<fs, overwrote>>
  /\ WorkerFrame

\* copyFile: io.Copy(d, s) and the deferred d.Close() and s.Close(); a copy
\* that fails leaves dst cut short
CopyData(w) ==
  /\ wk[w].pc = "copydata"
  /\ \E ok \in BOOLEAN :
       LET r == wk[w]
       IN IF ok /\ Exists(r.src)
          THEN /\ fs' = Write(fs, r.dst, fs[r.src])
               /\ Step(w, CopyReturn(r, ""))
          ELSE /\ fs' = Write(fs, r.dst, Partial)
               /\ Step(w, CopyReturn(r, "copy"))
  /\ UNCHANGED overwrote
  /\ WorkerFrame

\* a loop that sleeps and retries after the second failure too
RetryAfterEither(i) == i <= 1

\* `if i == 0`: the failed rename that is followed by a sleep and a retry
RetryAfter(i) == i = 0

\* one pass of `for i := 0; i < 2; i++`: os.Rename(tmp, orig); a failure with
\* i = 0 sleeps and retries, a failure with i = 1 calls copyFile(tmp, orig)
Rename(w) ==
  /\ wk[w].pc = "rename"
  /\ \E ok \in BOOLEAN :
       LET r == [wk[w] EXCEPT !.renames = wk[w].renames + 1]
           tmp == TmpPath(r.p)
       IN IF ok /\ Exists(tmp)
          THEN /\ fs' = Write(Remove(fs, tmp), r.p, fs[tmp])
               /\ Step(w, Ret(r, ""))
          ELSE /\ fs' = fs
               /\ IF RetryAfter(r.i)
                  THEN Step(w, [r EXCEPT !.i = r.i + 1])
                  ELSE Step(w, [r EXCEPT !.pc = "copyopen", !.src = tmp,
                                         !.dst = r.p, !.call = "fallback"])
  /\ UNCHANGED overwrote
  /\ WorkerFrame

\* after a successful fallback copy: os.Remove(tmp); return nil.  The error
\* of os.Remove is dropped; removal can fail while this process still holds
\* tmp open (scrubImage calls replaceOriginal before its deferred out.Close())
RemoveTmp(w) ==
  /\ wk[w].pc = "remove"
  /\ \E ok \in BOOLEAN :
       fs' = IF ok \/ TmpPath(wk[w].p) \notin wk[w].open
             THEN Remove(fs, TmpPath(wk[w].p)) ELSE fs
  /\ Step(w, Ret(wk[w], ""))
  /\ UNCHANGED overwrote
  /\ WorkerFrame

\* scrubImage: os.Open(path) and image.Decode
ImgOpen(w) ==
  /\ wk[w].pc = "imgopen"
  /\ \E ok \in BOOLEAN :
       LET r == wk[w]
       IN IF ~(ok /\ Exists(r.p)) THEN Step(w, Ret(r, "open"))
          ELSE IF fs[r.p].kind # "img" THEN Step(w, Ret(r, "decode"))
          ELSE Step(w, [r EXCEPT !.pc = "imgcreate", !.img = fs[r.p]])
  /\ UNCHANGED <<fs, overwrote>>
  /\ WorkerFrame

\* scrubImage: tmp := path + ".tmp"; os.Create(tmp)
ImgCreate(w) ==
  /\ wk[w].pc = "imgcreate"
  /\ \E ok \in BOOLEAN :
       LET r == wk[w]
       IN IF ok
          THEN /\ fs' = Write(fs, TmpPath(r.p), Empty)
               /\ Step(w, [r EXCEPT !.pc = "imgencode",
                                    !.open = {TmpPath(r.p)}])
          ELSE /\ fs' = fs
               /\ Step(w, Ret(r, "create"))
  /\ UNCHANGED overwrote
  /\ WorkerFrame

\* scrubImage: jpeg.Encode or png.Encode of the decoded pixels, which carry
\* no metadata; an encoder error returns with tmp left as written so far;
\* else replaceOriginal(path, tmp), with out still open (defer out.Close())
ImgEncode(w) ==
  /\ wk[w].pc = "imgencode"
  /\ \E ok \in BOOLEAN :
       LET r == wk[w]
       IN IF ok
          THEN /\ fs' = Write(fs, TmpPath(r.p), Image(FALSE))
               /\ Step(w, [EnterReplace(r) EXCEPT !.staged = Image(FALSE)])
          ELSE /\ fs' = Write(fs, TmpPath(r.p), Partial)
               /\ Step(w, Ret(r, "encode"))
  /\ UNCHANGED overwrote
  /\ WorkerFrame

\* add(ptr, 1) is `*ptr += delta` on a shared int64 with no lock and no
\* atomic: the load ...
AddRead(w) ==
  /\ wk[w].pc = "addread"
  /\ wk' = [wk EXCEPT ![w] =
              [IdleWorker EXCEPT !.pc = "addwrite", !.err = wk[w].err,
                 !.reg = IF wk[w].err = "" THEN okCount ELSE failCount]]
  /\ UNCHANGED <<flagVars, fs, denied, now, mainVars, countVars, ghostVars>>

\* a worker loop that returns at the first failed file
AfterAddStopOnError(r) ==
  [IdleWorker EXCEPT !.pc = IF r.err # "" THEN "exit" ELSE "recv"]

\* the loop body is over: the next `range` pass
AfterAdd(r) == [IdleWorker EXCEPT !.pc = "recv"]

\* ... and the store of the incremented value
AddWrite(w) ==
  /\ wk[w].pc = "addwrite"
  /\ IF wk[w].err = ""
     THEN okCount' = wk[w].reg + 1 /\ failCount' = failCount
     ELSE failCount' = wk[w].reg + 1 /\ okCount' = okCount
  /\ wk' = [wk EXCEPT ![w] = AfterAdd(wk[w])]
  /\ UNCHANGED <<flagVars, fs, denied, now, mainVars, ghostVars>>

\* ------------------------------------------------------------------- specs
\* the steps of main
MainStep ==
  \/ Discover
  \/ DryRunList
  \/ StartWorkers
  \/ Enqueue
  \/ CloseJobs
  \/ WaitAndReport

\* the steps of worker goroutine w
WorkerStep(w) ==
  \/ Receive(w)
  \/ Exit(w)
  \/ ReadFile(w)
  \/ CreateTmp(w)
  \/ RewriteEntry(w)
  \/ CloseZip(w)
  \/ StatBak(w)
  \/ CopyOpen(w)
  \/ CopyCreate(w)
  \/ CopyData(w)
  \/ Rename(w)
  \/ RemoveTmp(w)
  \/ ImgOpen(w)
  \/ ImgCreate(w)
  \/ ImgEncode(w)
  \/ AddRead(w)
  \/ AddWrite(w)

Next ==
  \/ MainStep
  \/ \E w \in Workers : WorkerStep(w)

\* one invocation of the program on a directory
Spec == Init /\ [][Next]_vars

\* one invocation in which main and every started goroutine keep being
\* scheduled (the Go scheduler starves no runnable goroutine) and every
\* system call returns
SpecLive ==
  /\ Init
  /\ [][Next]_vars
  /\ WF_vars(MainStep)
  /\ \A w \in Workers : WF_vars(WorkerStep(w))

\* ---------------------------------------------------- repeated invocations
\* time.Now().Unix() moves on by a second; StatBak is the only reader of the
\* clock, so the change is taken just before a read
Tick ==
  /\ now < MaxClock
  /\ \E w \in Workers : wk[w].pc = "stat"
  /\ now' = now + 1
  /\ UNCHANGED <<flagVars, fs, denied, mainVars, countVars, wk, ghostVars>>

\* a new process starts on the directory as the previous run left it
Restart ==
  /\ mainpc = "done"
  /\ run < MaxRuns
  /\ run' = run + 1
  /\ prevListed' = listed
  /\ fs0' = fs
  /\ mainpc' = "start"
  /\ files' = <<>>
  /\ listed' = <<>>
  /\ sent' = 0
  /\ jobs' = <<>>
  /\ closed' = FALSE
  /\ okCount' = 0
  /\ failCount' = 0
  /\ reported' = <<>>
  /\ wk' = [w \in Workers |-> IdleWorker]
  /\ invoked' = {}
  /\ calls' = 0
  /\ outcome' = {}
  /\ UNCHANGED <<fs, denied, now, overwrote>>

\* the same command line is run again
Rerun ==
  /\ Restart
  /\ UNCHANGED flagVars

\* after a --dry-run preview the command is run again, with or without
\* --dry-run and with the other flags as before
RerunAfterPreview ==
  /\ dryRun
  /\ Restart
  /\ dryRun' \in BOOLEAN
  /\ UNCHANGED <<backup, workers, withPDF, includeExt, excludeExt>>

\* --include / --exclude values tried: none, a list of separators only, and
\* lists with a blank, a leading dot and upper case in them
IncludeOptions ==
  {<<>>, <<",">>, <<"d", "o", "c", "x", ",", " ", ".", "O", "D", "T">>}
ExcludeOptions == {<<>>, <<"o", "d", "t", ",", " ", ".", "J", "P", "G">>}

\* up to MaxRuns invocations of one command line, one after the other, on a
\* directory that holds at most one file at first
InitRerun ==
  /\ backup \in BOOLEAN
  /\ dryRun \in BOOLEAN
  /\ workers = 1
  /\ withPDF = FALSE
  /\ includeExt = <<>>
  /\ excludeExt = <<>>
  /\ \E t \in Trees(1) : fs \in FileSystems(t)
  /\ fs0 = fs
  /\ denied = {}
  /\ now = 0
  /\ run = 1
  /\ InitProc

NextRerun ==
  \/ MainStep
  \/ \E w \in Workers : WorkerStep(w)
  \/ Tick
  \/ Rerun

SpecRerun == InitRerun /\ [][NextRerun]_vars

\* previews (--dry-run) of a directory, each followed by another preview or
\* by the real run
InitPreview ==
  /\ backup \in BOOLEAN
  /\ dryRun \in BOOLEAN
  /\ workers = 1
  /\ withPDF = FALSE
  /\ includeExt \in IncludeOptions
  /\ excludeExt \in ExcludeOptions
  /\ \E t \in Trees(MaxFiles) : fs \in FileSystems(t)
  /\ fs0 = fs
  /\ denied = {}
  /\ now = 0
  /\ run = 1
  /\ InitProc

NextPreview ==
  \/ MainStep
  \/ \E w \in Workers : WorkerStep(w)
  \/ RerunAfterPreview

SpecPreview == InitPreview /\ [][NextPreview]_vars

\* --------------------------------------------------- a batch with a PDF
\* one invocation, with or without --with-pdf and with at least one worker,
\* on a directory that holds d.pdf and at most MaxFiles - 1 other files
InitPDF ==
  /\ backup = TRUE
  /\ dryRun \in BOOLEAN
  /\ workers \in 1..MaxWorkers
  /\ withPDF \in BOOLEAN
  /\ includeExt = <<>>
  /\ excludeExt = <<>>
  /\ \E t \in Trees(MaxFiles) : FileD \in Range(t) /\ fs \in FileSystems(t)
  /\ fs0 = fs
  /\ denied = {}
  /\ now = 0
  /\ run = 1
  /\ InitProc

SpecPDF == InitPDF /\ [][Next]_vars

\* ---------------------------------------------- a walk that meets errors
\* one invocation with one worker on a directory that may hold the
\* subdirectory s with a file in it; the input path, the subdirectory, or
\* both may be inaccessible
InitWalk ==
  /\ backup = TRUE
  /\ dryRun \in BOOLEAN
  /\ workers = 1
  /\ withPDF = FALSE
  /\ includeExt = <<>>
  /\ excludeExt = <<>>
  /\ \E t \in Trees(MaxFiles) : \E nested \in BOOLEAN :
       /\ fs \in FileSystems(IF nested THEN Append(t, FileS) ELSE t)
       /\ denied \in SUBSET ({Root} \cup IF nested THEN {Sub} ELSE {})
  /\ fs0 = fs
  /\ now = 0
  /\ run = 1
  /\ InitProc

SpecWalk == InitWalk /\ [][Next]_vars

\* ------------------------------------------------------- rewriteZip alone
\* the entries source archives are built from
EntryUniverse ==
  {Entry(NameCore, 8, 420, 1, "core"), Entry(NameBody, 0, 493, 2, "body"),
   Entry(NameBody, 8, 420, 1, "other"), Entry(NameMeta, 8, 384, 3, "meta")}

\* the sequences over S of length at most n
SeqsUpTo(S, n) == UNION {[1..k -> S] : k \in 0..n}

\* rewriteZip(FileA, keep) called on its own, for every archive of at most
\* MaxEntries entries (or bytes that are no archive) and every keep predicate
InitRewrite ==
  /\ backup \in BOOLEAN
  /\ dryRun = FALSE
  /\ workers = 1
  /\ withPDF = FALSE
  /\ includeExt = <<>>
  /\ excludeExt = <<>>
  /\ \E c \in {Zip(es) : es \in SeqsUpTo(EntryUniverse, MaxEntries)} \cup {Garbage} :
       fs = [q \in {FileA} |-> c]
  /\ fs0 = fs
  /\ denied = {}
  /\ now = 0
  /\ run = 1
  /\ mainpc = "call"
  /\ files = <<>>
  /\ listed = <<>>
  /\ sent = 0
  /\ jobs = <<>>
  /\ closed = FALSE
  /\ okCount = 0
  /\ failCount = 0
  /\ reported = <<>>
  /\ \E k \in [NamesIn(fs[FileA]) -> BOOLEAN] :
       wk = [w \in Workers |->
               IF w = 1 THEN [IdleWorker EXCEPT !.pc = "readfile", !.p = FileA,
                                                !.keep = k]
               ELSE IdleWorker]
  /\ invoked = {}
  /\ calls = 0
  /\ outcome = {}
  /\ prevListed = <<>>
  /\ overwrote = {}

NextRewrite ==
  \E w \in Workers :
    \/ ReadFile(w)
    \/ CreateTmp(w)
    \/ RewriteEntry(w)
    \/ CloseZip(w)
    \/ StatBak(w)
    \/ CopyOpen(w)
    \/ CopyCreate(w)
    \/ CopyData(w)
    \/ Rename(w)
    \/ RemoveTmp(w)

SpecRewrite == InitRewrite /\ [][NextRewrite]_vars

\* ------------------------------------------- scrubFile on a container file
\* one entry per name of the model
FamilyEntries == {Entry(n, 8, 420, 1, "x") : n \in EntryNames}

\* a run without backup on one container file, a.docx or b.ODT, holding any
\* archive of at most MaxEntries entries: the file has been enqueued, the
\* queue is closed and the worker is about to receive it
InitFamily ==
  /\ backup = FALSE
  /\ dryRun = FALSE
  /\ workers = 1
  /\ withPDF = FALSE
  /\ includeExt = <<>>
  /\ excludeExt = <<>>
  /\ \E p \in {FileA, FileB} : \E es \in SeqsUpTo(FamilyEntries, MaxEntries) :
       /\ fs = [q \in {p} |-> Zip(es)]
       /\ files = <<p>>
       /\ jobs = <<p>>
  /\ fs0 = fs
  /\ denied = {}
  /\ now = 0
  /\ run = 1
  /\ mainpc = "wait"
  /\ listed = <<>>
  /\ sent = 1
  /\ closed = TRUE
  /\ okCount = 0
  /\ failCount = 0
  /\ reported = <<>>
  /\ wk = [w \in Workers |->
             IF w = 1 THEN [IdleWorker EXCEPT !.pc = "recv"] ELSE IdleWorker]
  /\ invoked = {}
  /\ calls = 0
  /\ outcome = {}
  /\ prevListed = <<>>
  /\ overwrote = {}

\* scrubFile(p) from the receive to its return
NextFamily ==
  \E w \in Workers :
    \/ Receive(w)
    \/ ReadFile(w)
    \/ CreateTmp(w)
    \/ RewriteEntry(w)
    \/ CloseZip(w)
    \/ CopyOpen(w)
    \/ CopyCreate(w)
    \/ CopyData(w)
    \/ Rename(w)
    \/ RemoveTmp(w)

SpecFamily == InitFamily /\ [][NextFamily]_vars

\* ------------------------------------------------------------------ claims
\* the scrubs that returned nil, and those that returned an error
OkOutcomes == {o \in outcome : o[2] = "ok"}
FailOutcomes == {o \in outcome : o[2] = "fail"}
\* the goroutines `go func()` has started
Started == {w \in Workers : wk[w].pc # "idle"}
\* worker w's locals show a commit that is at or past its rename loop
Replacing(r) == r.pc = "rename" \/ r.renames > 0 \/ r.copies > 0

\* C1: the counts a non-dry-run finally prints are the number of scrubs that
\* returned nil and the number that returned an error, whatever the
\* interleaving of the workers' add calls (no increment is lost).
C1_ReportedCountsAreOutcomes ==
  (mainpc = "done" /\ reported # <<>>) =>
     /\ reported[1] = Cardinality(OkOutcomes)
     /\ reported[2] = Cardinality(FailOutcomes)

\* C2: when a non-dry-run is over, every candidate has been sent once and
\* scrubFile has been invoked exactly once on it, and on nothing else; at no
\* time has a path been taken twice (calls counts the invocations, invoked
\* is the set of their paths) or been in the hands of two workers.
C2_EachCandidateScrubbedOnce ==
  /\ calls = Cardinality(invoked)
  /\ invoked \subseteq Range(files)
  /\ \A w \in Workers : \A v \in Workers \ {w} :
        (wk[w].p # <<>> /\ wk[v].p # <<>>) => wk[w].p # wk[v].p
  /\ (mainpc = "done" /\ ~dryRun) =>
        /\ sent = Len(files)
        /\ invoked = Range(files)

\* C3: with backup enabled, from the first rename attempt on (and so after
\* every successful commit) the backup file exists, is closed, and holds the
\* content the original path had when the commit began, whatever the other
\* workers are doing to their files.
C3_BackupCompleteBeforeReplace ==
  \A w \in Workers :
    LET r == wk[w]
    IN (backup /\ Replacing(r)) =>
         /\ Exists(r.bak)
         /\ fs[r.bak] = r.pre
         /\ r.pre = fs0[r.p]
         /\ r.bak \notin r.open

\* a commit with backup has replaced a.docx by its scrubbed archive while
\* another worker is in the middle of its own file
C3_Witness ==
  \E w \in Workers : \E v \in Workers \ {w} :
    /\ backup
    /\ wk[w].pc = "addread" /\ wk[w].err = "" /\ wk[w].renames > 0
    /\ wk[w].pre # wk[w].staged
    /\ fs[wk[w].p] = wk[w].staged
    /\ wk[v].pc \in {"entry", "copydata", "rename"}

\* C4: a commit with backup never creates its backup at a path where a file
\* already was, however many commits of the same original there are and
\* whatever the clock reads.
C4_NoBackupOverwritten == overwrote = {}

\* C5: once the backup copy of a commit has failed, the commit has returned
\* the backup error with no rename and no fallback copy attempted, and the
\* original and the staged file are as they were when the commit began.
C5_BackupFailureAbortsCommit ==
  \A w \in Workers :
    LET r == wk[w]
    IN r.bakfail =>
         /\ r.pc = "addread"
         /\ r.err = "backup"
         /\ r.renames = 0 /\ r.copies = 0
         /\ Exists(r.p) /\ fs[r.p] = r.pre /\ r.pre = fs0[r.p]
         /\ Exists(TmpPath(r.p)) /\ fs[TmpPath(r.p)] = r.staged

\* the backup copy was cut short after the staged archive was written
C5_Witness ==
  \E w \in Workers :
    /\ wk[w].bakfail
    /\ wk[w].staged.kind = "zip"
    /\ Exists(wk[w].bak) /\ fs[wk[w].bak] = Partial

\* C6: when the scrub of a container file returns an error, the original
\* path holds exactly its content from before the scrub.
C6_FailureLeavesOriginalIntact ==
  \A w \in Workers :
    LET r == wk[w]
    IN (r.pc = "addread" /\ r.err # ""
        /\ ToLower(Ext(r.p)) \in openXMLSet \cup openDocSet) =>
         (Exists(r.p) /\ fs[r.p] = fs0[r.p])

\* C7: a failed file does not end the batch: a worker leaves its loop only on
\* the closed, drained queue, and a run in which some scrub failed still
\* ends with every candidate scrubbed to an outcome and the counts printed.
C7_FailureDoesNotAbortBatch ==
  /\ \A w \in Workers : wk[w].pc = "exit" => (closed /\ jobs = <<>>)
  /\ (mainpc = "done" /\ FailOutcomes # {}) =>
        /\ \A p \in Range(files) : \E o \in outcome : o[1] = p
        /\ reported # <<>>

\* a run of two candidates is over with one failure and one success
C7_Witness ==
  /\ mainpc = "done"
  /\ Len(files) >= 2
  /\ FailOutcomes # {}
  /\ OkOutcomes # {}

\* what the classifier selects from a directory: the paths in lexical order
\* whose lower-cased extension is a recognized one, is in the include set
\* when there is one, and is not in the exclude set
ClassifierSelects(p) ==
  LET ext == ToLower(Ext(p))
      bare == trimDot(ext)
  IN /\ ext \in openXMLSet \cup openDocSet \cup imageSet \cup {PDF}
     /\ (toSet(includeExt) = {} \/ bare \in toSet(includeExt))
     /\ bare \notin toSet(excludeExt)

\* C8: in dry-run mode the files are as the run found them and no worker is
\* started; the list printed is the classifier's selection; and a dry run
\* that follows a dry run prints the same list.
C8_DryRunIsPure ==
  dryRun =>
    /\ fs = fs0
    /\ Started = {}
    /\ mainpc = "done" =>
         listed = SelectSeq(SortedPaths(DOMAIN fs), ClassifierSelects)
    /\ (mainpc = "done" /\ run > 1) => listed = prevListed

\* a second dry run has printed a list that leaves out a file of the tree
C8_Witness ==
  /\ dryRun
  /\ run = 2
  /\ mainpc = "done"
  /\ Len(listed) >= 1
  /\ Cardinality(DOMAIN fs) > Len(listed)

\* C9: a non-dry-run with candidates runs at least 2 worker goroutines,
\* whatever --workers says.
C9_AtLeastTwoWorkers ==
  (mainpc \in {"enqueue", "wait", "done"} /\ ~dryRun /\ files # <<>>) =>
     Cardinality(Started) >= 2

\* the source entries a keep predicate keeps, in source order
Kept(es, keep) ==
  LET test(e) == keep[e.name]
  IN SelectSeq(es, test)

\* C10: a rewrite that succeeds stages an archive whose entries are the
\* source entries with keep(name) true, in source order, each with the
\* source's name, method, mode, modification time and content.
C10_StagedIsFilteredSource ==
  \A w \in Workers :
    LET r == wk[w]
    IN r.staged.kind = "zip" =>
         /\ r.staged = Zip(Kept(fs0[r.p].entries, r.keep))
         /\ (r.pc = "stat" \/ (r.pc = "rename" /\ r.renames = 0)) =>
              fs[TmpPath(r.p)] = r.staged

\* an archive was staged that keeps some of its source entries, drops
\* others, and keeps a deflated one
C10_Witness ==
  \E w \in Workers :
    LET r == wk[w]
    IN /\ r.staged.kind = "zip"
       /\ Len(r.staged.entries) >= 1
       /\ Len(r.staged.entries) < Len(fs0[r.p].entries)
       /\ \E i \in 1..Len(r.staged.entries) : r.staged.entries[i].method = 8

\* the names the two container families reserve for metadata
ReservedOpenXML(n) ==
  LET l == ToLower(n)
  IN Len(l) >= 9 /\ SubSeq(l, 1, 9) = <<"d", "o", "c", "p", "r", "o", "p", "s", "/">>
ReservedOpenDocument(n) ==
  ToLower(n) = <<"m", "e", "t", "a", ".", "x", "m", "l">>

\* the entries of es whose name is not reserved by the family of path p
Unreserved(p, es) ==
  LET test(e) == IF ToLower(Ext(p)) \in openXMLSet
                 THEN ~ReservedOpenXML(e.name)
                 ELSE ~ReservedOpenDocument(e.name)
  IN SelectSeq(es, test)

\* C11: the keep predicate scrubFile hands to the rewrite has a value for
\* every entry name of the archive; for an OpenXML file it drops a name iff
\* its lower-cased form starts with "docprops/", for an OpenDocument file iff
\* its lower-cased form is "meta.xml", and keeps every other name (so
\* "sub/meta.xml", "META-INF/manifest.xml" and "docPropsX/a" are kept); the
\* archive staged is the source without exactly the reserved entries.
C11_FamilyPredicatesDropReserved ==
  /\ keepOpenDocument(NameSubMeta) /\ keepOpenDocument(NameOdfManifest)
  /\ keepOpenXML(NamePropsX)
  /\ \A w \in Workers :
       LET r == wk[w]
           ext == ToLower(Ext(r.p))
       IN r.p # <<>> =>
            /\ DOMAIN r.keep = NamesIn(fs0[r.p])
            /\ ext \in openXMLSet =>
                 \A n \in DOMAIN r.keep : r.keep[n] = ~ReservedOpenXML(n)
            /\ ext \in openDocSet =>
                 \A n \in DOMAIN r.keep : r.keep[n] = ~ReservedOpenDocument(n)
            /\ r.staged.kind = "zip" =>
                 r.staged.entries = Unreserved(r.p, fs0[r.p].entries)

\* b.ODT held Meta.xml and sub/meta.xml, and the archive staged for it holds
\* sub/meta.xml alone
C11_Witness ==
  \E w \in Workers :
    LET r == wk[w]
    IN /\ r.p = FileB
       /\ r.staged.kind = "zip"
       /\ NamesIn(fs0[r.p]) = {NameMeta, NameSubMeta}
       /\ NamesIn(r.staged) = {NameSubMeta}

\* the scrub of path p starts from an archive with no reserved entry
AlreadyScrubbed(p) ==
  /\ ToLower(Ext(p)) \in openXMLSet \cup openDocSet
  /\ p \in DOMAIN fs0
  /\ fs0[p].kind = "zip"
  /\ Unreserved(p, fs0[p].entries) = fs0[p].entries

\* C12: the scrub of a container that holds no reserved entry (one that was
\* scrubbed before) does not fail on the archive, stages an archive with the
\* input's entry sequence, and when it returns nil the original path holds an
\* archive with exactly the entries it had, also when the earlier scrub left
\* a .bak behind.
C12_RescrubKeepsEntries ==
  \A w \in Workers :
    LET r == wk[w]
    IN (r.p # <<>> /\ AlreadyScrubbed(r.p)) =>
         /\ r.err # "zip"
         /\ r.staged.kind = "zip" => r.staged.entries = fs0[r.p].entries
         /\ (r.pc = "addread" /\ r.err = "") =>
              /\ Exists(r.p)
              /\ fs[r.p].kind = "zip"
              /\ fs[r.p].entries = fs0[r.p].entries

\* a second run has scrubbed a file again that the first run scrubbed and
\* backed up: the new backup went to the time-stamped name
C12_Witness ==
  \E w \in Workers :
    LET r == wk[w]
    IN /\ run >= 2
       /\ r.p # <<>> /\ AlreadyScrubbed(r.p)
       /\ fs0[r.p].entries # <<>>
       /\ BakPath(r.p) \in DOMAIN fs0
       /\ fs0[BakPath(r.p)].kind = "zip"
       /\ fs0[BakPath(r.p)].entries # fs0[r.p].entries
       /\ r.pc = "addread" /\ r.err = ""
       /\ r.bak = StampedBakPath(r.p, now)
       /\ fs[r.p] = fs0[r.p]

\* the step of its commit that worker locals r show
Phase(r) ==
  IF r.pc = "rename" /\ r.i = 0 THEN "AttemptAtomicMove"
  ELSE IF r.pc = "rename" THEN "RetryOnce"
  ELSE IF r.call = "fallback"
          /\ r.pc \in {"copyopen", "copycreate", "copydata", "remove"}
       THEN "FallbackCopy"
  ELSE IF r.pc = "addread" /\ r.err = "replace" THEN "Failed"
  ELSE IF r.pc = "addread" /\ r.err = "" /\ r.renames > 0 THEN "Committed"
  ELSE "None"

\* the moves between commit steps: a first attempt, then success or the one
\* retry, then success or the fallback copy, which succeeds or fails
CommitEdges ==
  {<<"None", "AttemptAtomicMove">>,
   <<"AttemptAtomicMove", "RetryOnce">>, <<"AttemptAtomicMove", "Committed">>,
   <<"RetryOnce", "FallbackCopy">>, <<"RetryOnce", "Committed">>,
   <<"FallbackCopy", "Failed">>, <<"FallbackCopy", "Committed">>,
   <<"Committed", "None">>, <<"Failed", "None">>}

\* C13: a commit calls os.Rename at most twice, the second time only after
\* the first failed; the fallback copy runs at most once and only after two
\* failed renames, never after a rename that succeeded; and the commit moves
\* only AttemptAtomicMove -> RetryOnce -> FallbackCopy -> Failed, leaving
\* that chain only by succeeding.
C13_RenameTwiceThenFallback ==
  /\ [](\A w \in Workers :
          LET r == wk[w]
          IN /\ r.renames <= 2
             /\ r.copies <= 1
             /\ r.pc = "rename" => (r.renames = r.i /\ r.i \in {0, 1})
             /\ (Phase(r) = "FallbackCopy" \/ r.copies > 0) => r.renames = 2
             /\ Phase(r) = "Failed" => r.renames = 2)
  /\ [][\A w \in Workers :
          \/ Phase(wk'[w]) = Phase(wk[w])
          \/ <<Phase(wk[w]), Phase(wk'[w])>> \in CommitEdges]_vars

\* after two failed renames the fallback copy has succeeded and the staged
\* file is about to be removed
C13_Witness ==
  \E w \in Workers :
    /\ wk[w].pc = "remove"
    /\ wk[w].renames = 2
    /\ wk[w].copies = 1

\* C14: after a commit that succeeded (by the first rename, by the retried
\* rename or by the fallback copy) no file is left at <original>.tmp, and
\* after a commit whose renames and fallback copy all failed the error is
\* returned and the staged file is still there with its staged content.
C14_TmpCleanedOrKept ==
  \A w \in Workers :
    LET r == wk[w]
    IN /\ (r.pc = "addread" /\ r.err = "" /\ r.renames > 0) =>
            ~Exists(TmpPath(r.p))
       /\ (r.pc = "addread" /\ r.err = "replace") =>
            (Exists(TmpPath(r.p)) /\ fs[TmpPath(r.p)] = r.staged)

\* C15: when opening, creating or copying an entry fails during a rewrite,
\* the scrub returns the error with no backup, rename or fallback copy
\* attempted, the original holds what it held before, no backup of it has
\* appeared, and nothing is left at <original>.tmp.
C15_EntryErrorAbortsRewrite ==
  \A w \in Workers :
    LET r == wk[w]
    IN (r.pc = "addread" /\ r.err = "entry") =>
         /\ r.bak = <<>> /\ r.renames = 0 /\ r.copies = 0
         /\ r.staged = Empty
         /\ Exists(r.p) /\ fs[r.p] = fs0[r.p]
         /\ \A b \in {BakPath(r.p), StampedBakPath(r.p, now)} :
              Exists(b) => (b \in DOMAIN fs0 /\ fs[b] = fs0[b])
         /\ ~Exists(TmpPath(r.p))

\* the rewrite of a.docx has failed on an entry while another worker has
\* its own staged file on disk
C15_Witness ==
  \E w \in Workers : \E v \in Workers \ {w} :
    /\ wk[w].pc = "addread" /\ wk[w].err = "entry"
    /\ wk[w].p = FileA
    /\ fs[FileA] = DocxGood
    /\ wk[v].p # <<>> /\ Exists(TmpPath(wk[v].p))

\* an extension or list member without case, surrounding blanks and one
\* leading dot
NormExt(x) ==
  LET t == TrimSpace(ToLower(x))
  IN IF t # <<>> /\ t[1] = "." THEN Tail(t) ELSE t

\* the members of an --include or --exclude list
Members(csv) ==
  {NormExt(Split(csv, ",")[i]) : i \in 1..Len(Split(csv, ","))} \ {<<>>}

\* the condition under which a file met by the walk is a candidate
Eligible(p) ==
  LET e == NormExt(Ext(p))
  IN /\ (Members(includeExt) = {} \/ e \in Members(includeExt))
     /\ e \notin Members(excludeExt)
     /\ ToLower(Ext(p)) \in openXMLSet \cup openDocSet \cup imageSet \cup {PDF}

\* C16: the candidates of a directory walk are, in walk order, exactly the
\* files whose extension (without case and leading dot) is in the include
\* set when that set is not empty, is not in the exclude set, and is a
\* recognized one; set members are compared without case and leading dot
\* too, and an extension in both sets is skipped.  (Stated where the walk
\* has just ended: with candidates found, or with none and the run over.)
C16_ClassifierIncludeExclude ==
  (mainpc = "found" \/ (mainpc = "done" /\ files = <<>>)) =>
     files = SelectSeq(SortedPaths(DOMAIN fs0), Eligible)

\* b.ODT is in the include list (as " .ODT") and in the exclude list (as
\* "odt"): of a.docx and b.ODT the walk has kept a.docx alone
C16_Witness ==
  /\ mainpc = "found"
  /\ Members(includeExt) = {<<"d", "o", "c", "x">>, <<"o", "d", "t">>}
  /\ <<"o", "d", "t">> \in Members(excludeExt)
  /\ DOMAIN fs0 = {FileA, FileB}
  /\ files = <<FileA>>

\* C17: the run is ended by a fatal error only when the input path itself
\* cannot be accessed; when a directory inside it cannot be read, the files
\* outside that directory are still collected, and a real run gives each of
\* them that is a candidate an outcome.
C17_OnlyRootAccessIsFatal ==
  /\ mainpc = "fatal" => Root \in denied
  /\ (mainpc = "done" /\ ~dryRun /\ Root \notin denied) =>
       \A p \in DOMAIN fs0 :
         (Dir(p) \notin denied /\ Eligible(p)) => \E o \in outcome : o[1] = p

\* the PDF files of the directory
PdfFiles == {p \in DOMAIN fs0 : ToLower(Ext(p)) = PDF}

C19_RunTerminates ==
  /\ [](/\ (mainpc = "enqueue" /\ sent < Len(files)) => Len(jobs) < Len(files)
        /\ closed => sent = Len(files)
        /\ \A w \in Workers :
             /\ wk[w].pc = "exit" => (closed /\ jobs = <<>>)
             /\ wk[w].renames <= 2 /\ wk[w].copies <= 1
        /\ reported # <<>> => \A w \in Workers : wk[w].pc \in {"idle", "exit"}
        /\ (mainpc = "done" /\ ~dryRun /\ files # <<>>) => reported # <<>>)
  /\ <>(mainpc = "done")

\* a real run of MaxWorkers workers has printed its counts after every
\* worker drained the queue and exited
C19_Witness ==
  /\ mainpc = "done"
  /\ reported # <<>>
  /\ workers = MaxWorkers
  /\ sent = MaxFiles
  /\ jobs = <<>>
  /\ \A w \in Workers : wk[w].pc = "exit"

\* the paths the scrub of p may create, write, rename or remove
Owned(p) ==
  {p, TmpPath(p), BakPath(p)} \cup {StampedBakPath(p, t) : t \in 0..MaxClock}

\* the paths whose presence or content a step changes
Touched ==
  {q \in DOMAIN fs \cup DOMAIN fs' :
     q \notin DOMAIN fs \/ q \notin DOMAIN fs' \/ fs[q] # fs'[q]}

\* what a scrub of p that returns nil leaves at p
Scrubbed(p) ==
  IF fs0[p].kind = "zip" THEN Zip(Unreserved(p, fs0[p].entries))
  ELSE Image(FALSE)

\* C20: the path sets of two distinct candidates are disjoint (so no
\* staging or backup path is a candidate); a step changes only paths owned
\* by the file of the worker that takes it; so each worker finds its
\* original and its staged file as it left them, and when the run is over
\* each file holds what a scrub of it alone leaves: the scrubbed content
\* after a success, the old content or a cut-short copy after a failure.
C20_WorkersDoNotInterfere ==
  /\ [](/\ \A i \in 1..Len(files) : \A j \in 1..Len(files) :
             i # j => Owned(files[i]) \cap Owned(files[j]) = {}
        /\ \A w \in Workers :
             LET r == wk[w]
             IN (r.p # <<>> /\ r.pc # "addread") =>
                  /\ r.copies = 0 => (Exists(r.p) /\ fs[r.p] = fs0[r.p])
                  /\ r.staged # Empty =>
                       (Exists(TmpPath(r.p)) /\ fs[TmpPath(r.p)] = r.staged)
        /\ (mainpc = "done" /\ ~dryRun) =>
             \A o \in outcome :
               IF o[2] = "ok" THEN fs[o[1]] = Scrubbed(o[1])
               ELSE fs[o[1]] \in {fs0[o[1]], Partial})
  /\ [][\A q \in Touched :
          \E w \in Workers : wk'[w] # wk[w] /\ q \in Owned(wk[w].p)]_vars

\* two workers are in their commits at once, each with its own staged file
\* on disk: one is renaming, the other is copying its backup
C20_Witness ==
  \E w \in Workers : \E v \in Workers \ {w} :
    /\ wk[w].pc = "rename" /\ Exists(TmpPath(wk[w].p))
    /\ wk[v].pc = "copydata" /\ wk[v].call = "backup"
    /\ Exists(TmpPath(wk[v].p))
    /\ wk[w].p # wk[v].p

====
